---- MODULE Spec2Model ----
(***************************************************************************)
(* Model of the watchdog process supervisor (MatonAnthony/watchdog).       *)
(*                                                                         *)
(* src/watchdog.go        : main (fan-out, start-up barrier, watcher       *)
(*                          set-up, termination-signal trap), watch,       *)
(*                          killAll and the table launchedProcess.         *)
(* src/process/process.go : RunProcess, RunRemoteProcess, Signal, Kill,    *)
(*                          Watch, createSSHSession, createCommand.        *)
(*                                                                         *)
(* Every goroutine of the program is a process of the model; a step of     *)
(* the model is one blocking call or one shared-memory access of the code. *)
(* The operating system, the remote hosts and the network are the          *)
(* environment: their answers are nondeterministic choices.                *)
(***************************************************************************)
EXTENDS Integers, Sequences, FiniteSets, TLC

(***************************************************************************)
(* Bounds of the model.                                                    *)
(***************************************************************************)
\* largest number of launch goroutines of one configuration
MaxTasks == 2

\* largest replica count ("number") of one process of the configuration
MaxNumber == MaxTasks

\* number of process ids a host hands out (ids are reused once a process
\* has exited); as many as there are launches, so that equal pids are always
\* a choice of the operating system and never forced by the model
MaxPid == MaxTasks

Pids == 1..MaxPid

(***************************************************************************)
(* Program constants.                                                      *)
(***************************************************************************)
\* syscall.SIGHUP, syscall.SIGINT, syscall.SIGTERM
SIGHUP == 1
SIGINT == 2
SIGTERM == 15
\* the termination signals the environment sends
TerminationSignals == {SIGHUP, SIGINT, SIGTERM}
\* the signals main traps: signal.Notify(sigs, SIGINT, SIGTERM, SIGHUP)
TrappedSignals == {SIGINT, SIGTERM, SIGHUP}
\* frequency setupWatcher passes to watch (milliseconds)
WatcherFrequency == 5000
\* name of the process setupWatcher watches
WatcherName == "tail"
\* os.Exit(1) of main, and the exit status of zap's Logger.Fatal
ExitFailure == 1
\* exit status of a Go runtime fatal error ("concurrent map writes")
ExitRuntimeFatal == 2
\* sigs := make(chan os.Signal, 1)
SigsCapacity == 1

(***************************************************************************)
(* Data model: Auth, Target, Logs, Process, StartedProcess.                *)
(***************************************************************************)
Auth(password, privateKey) == [Password |-> password, PrivateKey |-> privateKey]

Target(auth, hostname, name, port, username) ==
    [Auth |-> auth, Hostname |-> hostname, Name |-> name, Port |-> port,
     Username |-> username]

Logs(stdout, stderr) == [Stdout |-> stdout, Stderr |-> stderr]

Process(name, arguments, target, executable, logs, number) ==
    [Name |-> name, Arguments |-> arguments, Target |-> target,
     Executable |-> executable, Logs |-> logs, Number |-> number]

StartedProcess(executable, server, pid, logs, name) ==
    [Executable |-> executable, Server |-> server, Pid |-> pid, Logs |-> logs,
     Name |-> name]

\* the zero value of Target: what a Go map lookup yields for a missing key
ZeroTarget == Target(Auth("", ""), "", "", 0, "")

\* the Server that RunProcess writes into a local handle
LocalTarget == Target(Auth("", ""), "local", "local", 0, "")

\* `var empty StartedProcess`: the zero-valued handle
EmptyStartedProcess == StartedProcess("", ZeroTarget, 0, Logs("", ""), "")

(***************************************************************************)
(* The configuration file: the targets are fixed, the processes are an     *)
(* input chosen by Init.                                                   *)
(***************************************************************************)
ConfigTargets ==
    << Target(Auth("password", ""), "host1", "r1", 22, "root") >>

\* initializeConfig: targetMap[target.Name] = target, in list order
TargetMapKeys == { ConfigTargets[i].Name : i \in 1..Len(ConfigTargets) }

\* a lookup that answers a missing key with the first configured target
TargetMap_DefaultFirst(name) ==
    IF name \in TargetMapKeys
    THEN LET last == CHOOSE i \in 1..Len(ConfigTargets) :
                        /\ ConfigTargets[i].Name = name
                        /\ \A j \in 1..Len(ConfigTargets) :
                              ConfigTargets[j].Name = name => j <= i
         IN ConfigTargets[last]
    ELSE ConfigTargets[1]

TargetMap(name) ==
    IF name \in TargetMapKeys
    THEN LET last == CHOOSE i \in 1..Len(ConfigTargets) :
                        /\ ConfigTargets[i].Name = name
                        /\ \A j \in 1..Len(ConfigTargets) :
                              ConfigTargets[j].Name = name => j <= i
         IN ConfigTargets[last]
    ELSE ZeroTarget

\* target names a process of the configuration may carry: the local
\* sentinel, a configured target, a name no target has
TargetNames == {"local", "r1", "ghost"}

\* the two process templates; target and number vary
Template(name) ==
    IF name = "tail"
    THEN [Executable |-> "/usr/bin/tail", Arguments |-> <<"-f", "out.logs">>,
          Logs |-> Logs("out.log", "err.log")]
    ELSE [Executable |-> "/bin/ls", Arguments |-> <<"-l", "-a">>,
          Logs |-> Logs("output", "error")]

ProcessNames == {"tail", "ls"}

ProcessChoices ==
    { Process(n, Template(n).Arguments, tg, Template(n).Executable,
              Template(n).Logs, k) :
        n \in ProcessNames, tg \in TargetNames, k \in 0..MaxNumber }

RECURSIVE SumNumber(_)
SumNumber(ps) == IF ps = <<>> THEN 0 ELSE Head(ps).Number + SumNumber(Tail(ps))

\* configurations of one process, or of the watched process followed by
\* another one, with at most MaxTasks instances in all
Configurations ==
    { c \in { <<p>> : p \in ProcessChoices } \cup
            { <<p, q>> : p \in ProcessChoices, q \in ProcessChoices } :
        /\ SumNumber(c) <= MaxTasks
        /\ Len(c) = 2 => (c[1].Name = WatcherName /\ c[2].Name # WatcherName) }

(***************************************************************************)
(* Strings that the code builds are sequences of pieces: a piece is a      *)
(* literal of the format string or one interpolated value.                 *)
(***************************************************************************)
RECURSIVE Join(_, _)
\* strings.Join(arguments, sep)
Join(arguments, sep) ==
    IF arguments = <<>> THEN <<>>
    ELSE IF Len(arguments) = 1 THEN <<Head(arguments)>>
    ELSE <<Head(arguments), sep>> \o Join(Tail(arguments), sep)

\* createCommand without the "&": the shell runs the job in the foreground
createCommand_Foreground(executable, arguments, logs) ==
    <<"nohup ", executable, " ">> \o Join(arguments, " ") \o
    <<" >> ", logs.Stdout, " 2> ", logs.Stderr, " ; echo -n $!">>

\* createCommand putting every argument between single quotes
createCommand_Quoted(executable, arguments, logs) ==
    <<"nohup ", executable, " ">> \o
    Join([ i \in 1..Len(arguments) |-> "'" \o arguments[i] \o "'" ], " ") \o
    <<" >> ", logs.Stdout, " 2> ", logs.Stderr, " & echo -n $!">>

\* fmt.Sprintf("nohup %s %s >> %s 2> %s & echo -n $!", ...)
createCommand(executable, arguments, logs) ==
    <<"nohup ", executable, " ">> \o Join(arguments, " ") \o
    <<" >> ", logs.Stdout, " 2> ", logs.Stderr, " & echo -n $!">>

\* what the remote shell does with a command line: a line whose job is
\* followed by "&" puts the job in the background and goes on without
\* waiting for it
Backgrounds(command) ==
    /\ command # <<>>
    /\ command[Len(command)] = " & echo -n $!"

\* strconv.Atoi on the captured standard output: the output is a sequence
\* of tokens, and it parses iff it is one token of digits
AtoiOk(output) == Len(output) = 1 /\ output[1] \in Nat

Atoi(output) == IF AtoiOk(output) THEN output[1] ELSE 0

(***************************************************************************)
(* createSSHSession: the credentials decide whether a dial is attempted;   *)
(* the network decides whether the dial and the session succeed.           *)
(***************************************************************************)
CredentialsComplete(server) ==
    \/ server.Auth.PrivateKey = "" /\ server.Auth.Password # ""
    \/ server.Auth.Password = "" /\ server.Auth.PrivateKey # ""

\* the errors createSSHSession can return for this server ("" is success)
createSSHSession(server) ==
    IF CredentialsComplete(server)
    THEN {"", "Impossible to establish the connection"}
    ELSE {"Incomplete credentials"}

(***************************************************************************)
(* State.                                                                  *)
(***************************************************************************)
VARIABLES
    configuration,    \* configuration.Processes
    mainPc,           \* where the main goroutine is
    si,               \* index of the outer range loop of main
    ri,               \* `i` of the inner loop of main
    tasks,            \* the launch goroutines, in spawning order
    waiting,          \* the counter of main's sync.WaitGroup
    launchedProcess,  \* the table: pid -> StartedProcess
    watchers,         \* the watch loops: pid key -> the loop's copy of the handle
    notify,           \* signal.Notify has been called
    sigs,             \* the number of signals queued on the channel sigs
    handlerPc,        \* where the signal-handler goroutine is
    sweep,            \* keys that killAll's range loop has yet to visit
    exited,           \* the supervisor process has terminated
    exitStatus,       \* its exit status
    exitCause,        \* which code path terminated it
    killAllRan,       \* history: killAll has been entered
    snapshot,         \* history: the table when killAll was entered
    dispatched,       \* history: handles killAll called Kill on
    removed,          \* history: handles killAll deleted from the table
    killErr,          \* history: a Kill of the sweep returned an error
    call              \* one call of an operation of package process, followed
                      \* step by step (no call in the supervisor's own runs)

vars == << configuration, mainPc, si, ri, tasks, waiting, launchedProcess,
           watchers, notify, sigs, handlerPc, sweep, exited, exitStatus,
           exitCause, killAllRan, snapshot, dispatched, removed, killErr,
           call >>

mainVars == << mainPc, si, ri >>
handlerVars == << notify, sigs, handlerPc, sweep >>
exitVars == << exited, exitStatus, exitCause >>
historyVars == << killAllRan, snapshot, dispatched, removed, killErr >>

EmptyTable == [p \in {} |-> EmptyStartedProcess]

\* the value of `call` while no single call is being followed
NoCall == [op |-> "none"]

Init ==
    /\ configuration \in Configurations
    /\ mainPc = "fanout"
    /\ si = 1
    /\ ri = 0
    /\ tasks = <<>>
    /\ waiting = 0
    /\ launchedProcess = EmptyTable
    /\ watchers = EmptyTable
    /\ notify = FALSE
    /\ sigs = 0
    /\ handlerPc = "none"
    /\ sweep = {}
    /\ exited = FALSE
    /\ exitStatus = 0
    /\ exitCause = ""
    /\ killAllRan = FALSE
    /\ snapshot = EmptyTable
    /\ dispatched = {}
    /\ removed = {}
    /\ killErr = FALSE
    /\ call = NoCall

TaskIds == 1..Len(tasks)

(***************************************************************************)
(* main: the fan-out (src/watchdog.go:65-100).                             *)
(***************************************************************************)
\* `if processus.Target == "local"`: which launcher the goroutine calls
Launcher(processus) == IF processus.Target = "local" THEN "local" ELSE "remote"

\* the Target the goroutine hands to the launcher: targetMap[processus.Target]
\* for RunRemoteProcess; RunProcess takes none and runs on this machine
LaunchServer(processus) ==
    IF Launcher(processus) = "local" THEN LocalTarget
    ELSE TargetMap(processus.Target)

\* the inner loop running once too often: `i <= processus.Number`
MoreReplicas_OffByOne(i, processus) == i <= processus.Number

\* the condition of the inner loop: `i < processus.Number`
MoreReplicas(i, processus) == i < processus.Number

NewTask(specIndex, processus) ==
    [ spec |-> specIndex,
      processus |-> processus,
      kind |-> Launcher(processus),
      server |-> LaunchServer(processus),
      pc |-> "start",
      pid |-> 0,
      child |-> "none",
      code |-> 0,
      command |-> <<>>,
      output |-> <<>>,
      started |-> EmptyStartedProcess,
      err |-> "",
      raced |-> FALSE ]

\* one iteration of the inner loop: waiting.Add(1); go func(processus){...}
FanoutSpawn ==
    /\ ~exited
    /\ mainPc = "fanout"
    /\ si <= Len(configuration)
    /\ MoreReplicas(ri, configuration[si])
    /\ waiting' = waiting + 1
    /\ tasks' = Append(tasks, NewTask(si, configuration[si]))
    /\ ri' = ri + 1
    /\ UNCHANGED << call, configuration, mainPc, si, launchedProcess, watchers,
                    handlerVars, exitVars, historyVars >>

\* the inner loop ends: the outer loop takes the next process, or ends and
\* main reaches waiting.Wait()
FanoutNext ==
    /\ ~exited
    /\ mainPc = "fanout"
    /\ si <= Len(configuration)
    /\ ~MoreReplicas(ri, configuration[si])
    /\ si' = si + 1
    /\ ri' = 0
    /\ mainPc' = IF si + 1 > Len(configuration) THEN "wait" ELSE "fanout"
    /\ UNCHANGED << call, configuration, tasks, waiting, launchedProcess, watchers,
                    handlerVars, exitVars, historyVars >>

(***************************************************************************)
(* The operating system of a host: process ids and running processes.      *)
(***************************************************************************)
\* a process with this pid is running on this host
PidAlive(hostname, pid) ==
    \E t \in TaskIds : /\ tasks[t].child = "running"
                       /\ tasks[t].server.Hostname = hostname
                       /\ tasks[t].pid = pid

\* the pids any host has handed out so far
UsedPids == { tasks[t].pid : t \in TaskIds } \ {0}

\* the pids the host can give to a new process: one that no running process
\* of the host has. Pids are only ever compared, so of the pids no host has
\* handed out yet the model takes the smallest
FreePids(hostname) ==
    { p \in Pids : /\ ~PidAlive(hostname, p)
                   /\ \A q \in Pids : q < p => q \in UsedPids \cup {p} }

\* a running process ends by itself: a local child with status 0 or not
ChildExit(t) ==
    /\ ~exited
    /\ tasks[t].child = "running"
    /\ \E c \in (IF tasks[t].kind = "local" THEN {0, 1} ELSE {0}) :
          tasks' = [tasks EXCEPT ![t].child = "exited", ![t].code = c]
    /\ UNCHANGED << call, configuration, mainVars, waiting, launchedProcess,
                    watchers, handlerVars, exitVars, historyVars >>

(***************************************************************************)
(* The launch goroutine around its launcher (src/watchdog.go:71-98).       *)
(* A step of a goroutine runs up to its next blocking call or its next     *)
(* access to the table.                                                    *)
(***************************************************************************)
\* `if err != nil { logger.Fatal(...); killAll(); os.Exit(1) }`: zap's
\* Logger.Fatal writes the entry and then calls os.Exit(1) itself, so the
\* two statements after it are never reached
LaunchFatal ==
    /\ exited' = TRUE
    /\ exitStatus' = ExitFailure
    /\ exitCause' = "launch_fatal"

\* the launcher of goroutine t returns (empty/nil, err)
ReturnError(t, message) ==
    [tasks EXCEPT ![t].pc = "failed", ![t].err = message]

\* the launcher of goroutine t returns (started, nil) and the goroutine
\* enters the assignment `launchedProcess[started.Pid] = started`; no lock
\* is taken, so other goroutines may be inside their own assignment
ReturnStarted(t, started) ==
    LET overlap == { u \in TaskIds : tasks[u].pc = "writing" }
    IN [ u \in TaskIds |->
           IF u = t
           THEN [tasks[u] EXCEPT !.pc = "writing", !.started = started,
                                 !.raced = (overlap # {})]
           ELSE IF u \in overlap
           THEN [tasks[u] EXCEPT !.raced = TRUE]
           ELSE tasks[u] ]

(***************************************************************************)
(* RunProcess (src/process/process.go:56-119), called by a launch          *)
(* goroutine whose process has the target "local".                         *)
(***************************************************************************)
\* StderrPipe, StdoutPipe or command.Start fails: (empty, error), no child
LocalStartFail(t) ==
    /\ ~exited
    /\ tasks[t].kind = "local"
    /\ tasks[t].pc = "start"
    /\ tasks' = ReturnError(t, "CreateProcess() impossible to create the process")
    /\ LaunchFatal
    /\ UNCHANGED << call, configuration, mainVars, waiting, launchedProcess,
                    watchers, handlerVars, historyVars >>

\* command.Start succeeds: the child runs, the two forwarders are started
\* and RunProcess calls command.Wait()
LocalStart(t) ==
    /\ ~exited
    /\ tasks[t].kind = "local"
    /\ tasks[t].pc = "start"
    /\ \E p \in FreePids(tasks[t].server.Hostname) :
          tasks' = [tasks EXCEPT ![t].pc = "wait", ![t].pid = p,
                                 ![t].child = "running"]
    /\ UNCHANGED << call, configuration, mainVars, waiting, launchedProcess,
                    watchers, handlerVars, exitVars, historyVars >>

\* RunProcess returning without command.Wait(): as soon as the child runs
CommandWaitDone_NoWait(task) == task.child \in {"running", "exited"}

\* command.Wait() returns once the child has exited
CommandWaitDone(task) == task.child = "exited"

\* RunProcess taking no result of command.Wait() for an error
CommandWaitError_Never(task) == FALSE

\* `if err := command.Wait(); err != nil`: the child did not exit with
\* status 0 (a non-zero status, or ended by a signal)
CommandWaitError(task) == task.code # 0

\* the handle of RunProcess with its Server left at the zero value
LocalHandle_ZeroServer(task) ==
    StartedProcess(task.processus.Executable, ZeroTarget, task.pid,
                   task.processus.Logs, task.processus.Name)

\* RunProcess filling Logs with the two paths exchanged
LocalHandle_SwappedLogs(task) ==
    StartedProcess(task.processus.Executable, LocalTarget, task.pid,
                   Logs(task.processus.Logs.Stderr, task.processus.Logs.Stdout),
                   task.processus.Name)

\* the handle RunProcess builds (process.go:100-118)
LocalHandle(task) ==
    StartedProcess(task.processus.Executable, LocalTarget, task.pid,
                   Logs(task.processus.Logs.Stdout, task.processus.Logs.Stderr),
                   task.processus.Name)

\* command.Wait() returns an error (the child did not exit with status 0):
\* RunProcess returns (empty, err)
LocalWaitError(t) ==
    /\ ~exited
    /\ tasks[t].kind = "local"
    /\ tasks[t].pc = "wait"
    /\ CommandWaitDone(tasks[t])
    /\ CommandWaitError(tasks[t])
    /\ tasks' = ReturnError(t, "exit status 1")
    /\ LaunchFatal
    /\ UNCHANGED << call, configuration, mainVars, waiting, launchedProcess,
                    watchers, handlerVars, historyVars >>

\* command.Wait() returns nil: the forwarders are joined and RunProcess
\* returns the filled handle
LocalWaitOk(t) ==
    /\ ~exited
    /\ tasks[t].kind = "local"
    /\ tasks[t].pc = "wait"
    /\ CommandWaitDone(tasks[t])
    /\ ~CommandWaitError(tasks[t])
    /\ tasks' = ReturnStarted(t, LocalHandle(tasks[t]))
    /\ UNCHANGED << call, configuration, mainVars, waiting, launchedProcess,
                    watchers, handlerVars, exitVars, historyVars >>

(***************************************************************************)
(* RunRemoteProcess (src/process/process.go:126-160).                      *)
(***************************************************************************)
\* createSSHSession fails
RemoteSessionFail(t) ==
    /\ ~exited
    /\ tasks[t].kind = "remote"
    /\ tasks[t].pc = "start"
    /\ \E e \in createSSHSession(tasks[t].server) : e # ""
    /\ tasks' = ReturnError(t, "Failed to obtain an SSH session")
    /\ LaunchFatal
    /\ UNCHANGED << call, configuration, mainVars, waiting, launchedProcess,
                    watchers, handlerVars, historyVars >>

\* createSSHSession succeeds; the command string is built and
\* session.Run(command) is called
RemoteSession(t) ==
    /\ ~exited
    /\ tasks[t].kind = "remote"
    /\ tasks[t].pc = "start"
    /\ "" \in createSSHSession(tasks[t].server)
    /\ tasks' = [tasks EXCEPT ![t].pc = "run",
                    ![t].command = createCommand(tasks[t].processus.Executable,
                                                 tasks[t].processus.Arguments,
                                                 tasks[t].processus.Logs)]
    /\ UNCHANGED << call, configuration, mainVars, waiting, launchedProcess,
                    watchers, handlerVars, exitVars, historyVars >>

\* session.Run(command) fails before the remote shell has started the job
RemoteRunFail(t) ==
    /\ ~exited
    /\ tasks[t].pc = "run"
    /\ tasks' = ReturnError(t, "Command : failed")
    /\ LaunchFatal
    /\ UNCHANGED << call, configuration, mainVars, waiting, launchedProcess,
                    watchers, handlerVars, historyVars >>

\* the remote shell starts the job and echoes $!; a shell whose echo does
\* not know -n writes the option in front of the pid
RemoteShell(t) ==
    /\ ~exited
    /\ tasks[t].pc = "run"
    /\ \E p \in FreePids(tasks[t].server.Hostname) :
       \E out \in { <<p>>, <<"-n", p>> } :
          tasks' = [tasks EXCEPT ![t].pc = "shell", ![t].pid = p,
                                 ![t].child = "running", ![t].output = out]
    /\ UNCHANGED << call, configuration, mainVars, waiting, launchedProcess,
                    watchers, handlerVars, exitVars, historyVars >>

\* the remote shell has finished the command line: at once when the job is
\* in the background, else when the job has exited
SessionRunDone(task) == Backgrounds(task.command) \/ task.child = "exited"

\* RunRemoteProcess writing the local sentinel into the handle's Server
RemoteHandle_LocalServer(task) ==
    StartedProcess(task.processus.Executable, LocalTarget, Atoi(task.output),
                   Logs(task.processus.Logs.Stdout, task.processus.Logs.Stderr),
                   task.processus.Name)

\* the handle RunRemoteProcess builds (process.go:149-158)
RemoteHandle(task) ==
    StartedProcess(task.processus.Executable, task.server, Atoi(task.output),
                   Logs(task.processus.Logs.Stdout, task.processus.Logs.Stderr),
                   task.processus.Name)

\* session.Run(command) returns nil and strconv.Atoi fails on the output
RemoteRunBadOutput(t) ==
    /\ ~exited
    /\ tasks[t].pc = "shell"
    /\ SessionRunDone(tasks[t])
    /\ ~AtoiOk(tasks[t].output)
    /\ tasks' = ReturnError(t, "Unexpected output")
    /\ LaunchFatal
    /\ UNCHANGED << call, configuration, mainVars, waiting, launchedProcess,
                    watchers, handlerVars, historyVars >>

\* session.Run(command) returns nil, the output parses and the handle is
\* returned
RemoteRunOk(t) ==
    /\ ~exited
    /\ tasks[t].pc = "shell"
    /\ SessionRunDone(tasks[t])
    /\ AtoiOk(tasks[t].output)
    /\ tasks' = ReturnStarted(t, RemoteHandle(tasks[t]))
    /\ UNCHANGED << call, configuration, mainVars, waiting, launchedProcess,
                    watchers, handlerVars, exitVars, historyVars >>

(***************************************************************************)
(* The assignment to the table (src/watchdog.go:87, 96).                   *)
(***************************************************************************)
\* m[key] = value of a Go map
MapAssign(m, key, value) ==
    [ p \in DOMAIN m \cup {key} |-> IF p = key THEN value ELSE m[p] ]

\* delete(m, key) of a Go map
MapDelete(m, key) == [ p \in DOMAIN m \ {key} |-> m[p] ]

\* every handle stored under one and the same key
TableKey_OneSlot(started) == 1

\* the key of `launchedProcess[started.Pid] = started`
TableKey(started) == started.Pid

\* the assignment takes effect; the goroutine ends (waiting.Done())
InsertEnd(t) ==
    /\ ~exited
    /\ tasks[t].pc = "writing"
    /\ launchedProcess' = MapAssign(launchedProcess,
                                    TableKey(tasks[t].started),
                                    tasks[t].started)
    /\ tasks' = [tasks EXCEPT ![t].pc = "done"]
    /\ waiting' = waiting - 1
    /\ UNCHANGED << call, configuration, mainVars, watchers, handlerVars, exitVars,
                    historyVars >>

\* data race: the assignment overlapped another one and its entry is lost
InsertLost(t) ==
    /\ ~exited
    /\ tasks[t].pc = "writing"
    /\ tasks[t].raced
    /\ tasks' = [tasks EXCEPT ![t].pc = "done"]
    /\ waiting' = waiting - 1
    /\ UNCHANGED << call, configuration, mainVars, launchedProcess, watchers,
                    handlerVars, exitVars, historyVars >>

\* data race: the Go runtime notices the overlapping assignments and stops
\* the program ("fatal error: concurrent map writes")
InsertCrash(t) ==
    /\ ~exited
    /\ tasks[t].pc = "writing"
    /\ tasks[t].raced
    /\ exited' = TRUE
    /\ exitStatus' = ExitRuntimeFatal
    /\ exitCause' = "runtime_fatal"
    /\ UNCHANGED << call, configuration, mainVars, tasks, waiting, launchedProcess,
                    watchers, handlerVars, historyVars >>

(***************************************************************************)
(* main after the fan-out (src/watchdog.go:102-116), watch and Watch.      *)
(***************************************************************************)
\* Watch refusing negative frequencies only
WatchAccepts_AllowsZero(frequency) == frequency >= 0

\* Watch: `if frequency <= 0 { return errors.New(...) }`
WatchAccepts(frequency) == frequency > 0

\* watch: the keys whose handle carries the name
WatchMatches(table, processName) ==
    { k \in DOMAIN table : processName = table[k].Name }

\* main going on without waiting for the launch goroutines
BarrierDone_Skipped(counter) == TRUE

\* `waiting.Wait()` returns when the counter of the WaitGroup is zero
BarrierDone(counter) == counter = 0

\* waiting.Wait() returns, then setupWatcher(): watch("tail", 5000, ...)
\* starts `go processus.Watch(...)` on every matching handle; each loop
\* works on its own copy of the handle
MainSetupWatcher ==
    /\ ~exited
    /\ mainPc = "wait"
    /\ BarrierDone(waiting)
    /\ mainPc' = "trap"
    /\ watchers' = [ k \in { k \in WatchMatches(launchedProcess, WatcherName) :
                             WatchAccepts(WatcherFrequency) } |->
                       launchedProcess[k] ]
    /\ UNCHANGED << call, configuration, si, ri, tasks, waiting, launchedProcess,
                    handlerVars, exitVars, historyVars >>

\* a tick of one watch loop: onTick of setupWatcher prints and returns nil,
\* so onCrash is not called and nothing of the supervisor changes
WatchTick(k) ==
    /\ ~exited
    /\ k \in DOMAIN watchers
    /\ UNCHANGED vars

\* main entering its last waiting.Wait() without the waiting.Add(1)
MainBlockAdd_Nothing(counter) == counter

\* `waiting.Add(1)` before the last `waiting.Wait()` of main
MainBlockAdd(counter) == counter + 1

\* signal.Notify(sigs, SIGINT, SIGTERM, SIGHUP); go func(){ <-sigs ... }();
\* waiting.Add(1); waiting.Wait(): main blocks for good
MainTrap ==
    /\ ~exited
    /\ mainPc = "trap"
    /\ mainPc' = "blocked"
    /\ notify' = TRUE
    /\ handlerPc' = "recv"
    /\ waiting' = MainBlockAdd(waiting)
    /\ UNCHANGED << call, configuration, si, ri, tasks, launchedProcess, watchers,
                    sigs, sweep, exitVars, historyVars >>

(***************************************************************************)
(* Termination signals.                                                    *)
(***************************************************************************)
\* a termination signal that is not trapped (before signal.Notify, or a
\* signal Notify was not given): the default action of the Go runtime ends
\* the process. Such a process has no exit status of its own: the model
\* records the signal, negated
SignalDefault(s) ==
    /\ ~exited
    /\ ~notify \/ s \notin TrappedSignals
    /\ exited' = TRUE
    /\ exitStatus' = 0 - s
    /\ exitCause' = "signal_default"
    /\ UNCHANGED << call, configuration, mainVars, tasks, waiting, launchedProcess,
                    watchers, handlerVars, historyVars >>

\* a trapped termination signal after signal.Notify: it is queued on sigs
\* when the channel has room (capacity 1) and dropped otherwise. The handler
\* never looks at the value it receives, so only the count is kept
SignalNotified(s) ==
    /\ ~exited
    /\ notify
    /\ s \in TrappedSignals
    /\ sigs < SigsCapacity
    /\ sigs' = sigs + 1
    /\ UNCHANGED << call, configuration, mainVars, tasks, waiting, launchedProcess,
                    watchers, notify, handlerPc, sweep, exitVars, historyVars >>

\* `<-sigs` returns and killAll() starts its range loop over the table
HandlerRecv ==
    /\ ~exited
    /\ handlerPc = "recv"
    /\ sigs > 0
    /\ sigs' = sigs - 1
    /\ handlerPc' = "killAll"
    /\ sweep' = DOMAIN launchedProcess
    /\ killAllRan' = TRUE
    /\ snapshot' = launchedProcess
    /\ UNCHANGED << call, configuration, mainVars, tasks, waiting, launchedProcess,
                    watchers, notify, exitVars, dispatched, removed, killErr >>

(***************************************************************************)
(* Signal and Kill (src/process/process.go:167-188, 218-220).              *)
(***************************************************************************)
\* the outcomes of process.Signal(signal): the error returned ("" is nil),
\* the calls of createSSHSession made, the signal number sent and whether
\* the signal reached a process
Signal(process, signal) ==
    IF process.Server.Name # "local"
    THEN { [err |-> "Failed to create SSH Session (send signal)",
            sessions |-> 1, signal |-> signal, delivered |-> FALSE] :
               e \in createSSHSession(process.Server) \ {""} }
         \cup
         UNION { { [err |-> "", sessions |-> 1, signal |-> signal,
                    delivered |-> PidAlive(process.Server.Hostname, process.Pid)],
                   [err |-> "Process exited with status 1", sessions |-> 1,
                    signal |-> signal, delivered |-> FALSE] } :
                 e \in createSSHSession(process.Server) \cap {""} }
    ELSE { [err |-> "Failed to send signal", sessions |-> 0,
            signal |-> signal, delivered |-> FALSE],
           \* /bin/kill -s <signal.String()> <pid> is started and not waited
           \* for; signal.String() is the description ("terminated"), which
           \* kill does not take for a signal name
           [err |-> "", sessions |-> 0, signal |-> signal,
            delivered |-> FALSE] }

\* Kill: `return process.Signal(syscall.SIGTERM)`
Kill(process) == Signal(process, SIGTERM)

\* a delivered termination signal ends the process it reaches
Terminate(hostname, pid) ==
    [ u \in TaskIds |->
        IF /\ tasks[u].child = "running"
           /\ tasks[u].server.Hostname = hostname
           /\ tasks[u].pid = pid
        THEN [tasks[u] EXCEPT !.child = "exited"]
        ELSE tasks[u] ]

(***************************************************************************)
(* killAll (src/watchdog.go:131-143), run by the signal handler.           *)
(***************************************************************************)
\* killAll forgetting `delete(launchedProcess, index)`
KillAllDelete_Forgotten(table, index) == table

\* `delete(launchedProcess, index)` after a Kill that returned nil
KillAllDelete(table, index) == MapDelete(table, index)

\* killAll going on after a Kill that returned an error
KillFailed_Ignored(err) == FALSE

\* `if err != nil` after `err = process.Kill()`
KillFailed(err) == err # ""

\* one iteration of the range loop: Kill; on an error log and return it,
\* else delete the entry
KillAllStep(index) ==
    /\ ~exited
    /\ handlerPc = "killAll"
    /\ ~killErr
    /\ index \in sweep
    /\ \E o \in Kill(launchedProcess[index]) :
          /\ dispatched' = dispatched \cup
                 { [process |-> launchedProcess[index], signal |-> o.signal,
                    ok |-> (o.err = "")] }
          /\ IF KillFailed(o.err)
             THEN /\ killErr' = TRUE
                  /\ UNCHANGED << launchedProcess, removed, sweep, tasks >>
             ELSE /\ launchedProcess' = KillAllDelete(launchedProcess, index)
                  /\ removed' = removed \cup {launchedProcess[index]}
                  /\ sweep' = sweep \ {index}
                  /\ tasks' = IF o.delivered
                              THEN Terminate(launchedProcess[index].Server.Hostname,
                                             launchedProcess[index].Pid)
                              ELSE tasks
                  /\ UNCHANGED killErr
    /\ UNCHANGED << call, configuration, mainVars, waiting, watchers, notify, sigs,
                    handlerPc, exitVars, killAllRan, snapshot >>

\* the status the handler exits with: the value killAll returned is dropped
HandlerExitStatus(err) == ExitFailure

\* killAll has returned (nil after the last entry, or the error of the
\* failed Kill); os.Exit(1)
HandlerExit ==
    /\ ~exited
    /\ handlerPc = "killAll"
    /\ sweep = {} \/ killErr
    /\ handlerPc' = "exit"
    /\ exited' = TRUE
    /\ exitStatus' = HandlerExitStatus(killErr)
    /\ exitCause' = "handler"
    /\ UNCHANGED << call, configuration, mainVars, tasks, waiting, launchedProcess,
                    watchers, notify, sigs, sweep, historyVars >>

(***************************************************************************)
(* The specification.                                                      *)
(***************************************************************************)
Next ==
    \/ FanoutSpawn
    \/ FanoutNext
    \/ \E t \in TaskIds : ChildExit(t)
    \/ \E t \in TaskIds : LocalStartFail(t)
    \/ \E t \in TaskIds : LocalStart(t)
    \/ \E t \in TaskIds : LocalWaitError(t)
    \/ \E t \in TaskIds : LocalWaitOk(t)
    \/ \E t \in TaskIds : RemoteSessionFail(t)
    \/ \E t \in TaskIds : RemoteSession(t)
    \/ \E t \in TaskIds : RemoteRunFail(t)
    \/ \E t \in TaskIds : RemoteShell(t)
    \/ \E t \in TaskIds : RemoteRunBadOutput(t)
    \/ \E t \in TaskIds : RemoteRunOk(t)
    \/ \E t \in TaskIds : InsertEnd(t)
    \/ \E t \in TaskIds : InsertLost(t)
    \/ \E t \in TaskIds : InsertCrash(t)
    \/ MainSetupWatcher
    \/ \E k \in Pids : WatchTick(k)
    \/ MainTrap
    \/ \E s \in TerminationSignals : SignalDefault(s)
    \/ \E s \in TerminationSignals : SignalNotified(s)
    \/ HandlerRecv
    \/ \E k \in Pids : KillAllStep(k)
    \/ HandlerExit

Spec == Init /\ [][Next]_vars

(***************************************************************************)
(* Vocabulary of the properties.                                           *)
(***************************************************************************)
\* the handles of a table
Handles(table) == { table[k] : k \in DOMAIN table }

\* the launcher of goroutine t has returned
Returned(t) == tasks[t].pc \in {"failed", "writing", "done"}

\* the launcher of goroutine t has returned a handle
ReturnedHandle(t) == tasks[t].pc \in {"writing", "done"}

\* the goroutines launched for the process at this index
TasksOf(i) == { t \in TaskIds : tasks[t].spec = i }

\* the supervisor has waited for the process of this handle: it is the
\* handle of a local launch, which returns only after command.Wait()
KnownExited(process) ==
    \E t \in TaskIds : /\ tasks[t].kind = "local"
                       /\ ReturnedHandle(t)
                       /\ tasks[t].started = process

\* the fan-out is over and every launch has inserted, and killAll has not
\* begun to empty the table
FanoutSucceeded ==
    /\ mainPc \in {"trap", "blocked"}
    /\ \A t \in TaskIds : tasks[t].pc = "done"
    /\ ~killAllRan

(***************************************************************************)
(* C1 .. C10                                                               *)
(***************************************************************************)

C2_KillAllBeforeFatalExit ==
    (exited /\ exitCause = "launch_fatal") => killAllRan

\* C3: every entry of the table is the handle that a launch whose launcher
\* returned success (child started, pid captured) has inserted, under the
\* key equal to the handle's Pid; a failed launch has no handle to insert.
C3_EntriesFromSuccessfulLaunches ==
    /\ \A k \in DOMAIN launchedProcess :
          /\ launchedProcess[k].Pid = k
          /\ \E t \in TaskIds : /\ tasks[t].pc = "done"
                                /\ tasks[t].err = ""
                                /\ tasks[t].child # "none"
                                /\ tasks[t].pid = k
                                /\ tasks[t].started = launchedProcess[k]
    /\ \A t \in TaskIds :
          tasks[t].pc = "failed" =>
             /\ tasks[t].err # ""
             /\ tasks[t].started = EmptyStartedProcess
             /\ tasks[t].started \notin Handles(launchedProcess)

\* an entry in the table while another launch has failed
C3_Witness ==
    /\ launchedProcess # EmptyTable
    /\ \E t \in TaskIds : tasks[t].pc = "failed" /\ tasks[t].child # "none"

\* C4: at most one goroutine is inside an access to the table at any time,
\* and no insertion is lost: the handle of every finished launch is in the
\* table until killAll takes it out.
C4_MutualExclusion ==
    /\ Cardinality({ t \in TaskIds : tasks[t].pc = "writing" }) <= 1
    /\ ~killAllRan =>
          \A t \in TaskIds : tasks[t].pc = "done" =>
             TableKey(tasks[t].started) \in DOMAIN launchedProcess

\* C5: after a fan-out in which every launch succeeded the table holds, for
\* each process of the configuration, exactly Number handles with its name,
\* and the watch loops run on exactly the handles named WatcherName.
C5_ReplicasAndWatches ==
    FanoutSucceeded =>
       \A i \in 1..Len(configuration) :
          LET named == { k \in DOMAIN launchedProcess :
                            launchedProcess[k].Name = configuration[i].Name }
          IN /\ Cardinality(named) = configuration[i].Number
             /\ configuration[i].Name = WatcherName =>
                   /\ DOMAIN watchers = named
                   /\ \A k \in named : watchers[k] = launchedProcess[k]

\* C6: main starts Number goroutines for each process (never more while the
\* loop runs), in configuration order; a goroutine calls the Local Launcher
\* iff the target of its process is "local", else the Remote Launcher with
\* the configured Target of that name (the zero Target if there is none).
C6_FanOut ==
    /\ \A i \in 1..Len(configuration) :
          /\ Cardinality(TasksOf(i)) <= configuration[i].Number
          /\ (mainPc # "fanout" \/ si > i) =>
                Cardinality(TasksOf(i)) = configuration[i].Number
          /\ (mainPc = "fanout" /\ si < i) => TasksOf(i) = {}
    /\ \A t \in TaskIds :
          LET p == configuration[tasks[t].spec]
          IN /\ tasks[t].processus = p
             /\ tasks[t].kind = "local" <=> p.Target = "local"
             /\ tasks[t].pc = "wait" => p.Target = "local"
             /\ tasks[t].pc \in {"run", "shell"} => p.Target # "local"
             /\ p.Target # "local" =>
                   tasks[t].server =
                      IF \E j \in 1..Len(ConfigTargets) :
                            ConfigTargets[j].Name = p.Target
                      THEN CHOOSE tg \in { ConfigTargets[j] :
                                              j \in 1..Len(ConfigTargets) } :
                              tg.Name = p.Target
                      ELSE ZeroTarget
    /\ \A t, u \in TaskIds : t < u => tasks[t].spec <= tasks[u].spec

\* a local and a remote launch in flight together after the loop, the one
\* started last already finished
C6_Witness ==
    /\ mainPc = "wait"
    /\ Len(tasks) = 2
    /\ tasks[1].kind = "local" /\ tasks[1].pc = "wait"
    /\ tasks[2].kind = "remote" /\ tasks[2].pc = "done"

\* C7: the exit status of a shutdown by the signal handler tells a partial
\* shutdown (a Kill failed) from a complete one.
C7_PartialShutdownSurfaced ==
    (exited /\ exitCause = "handler") =>
       (killErr <=> exitStatus # HandlerExitStatus(FALSE))

\* C8: the table holds no handle of a process the supervisor knows to have
\* exited.
C8_NoExitedHandleKept ==
    \A k \in DOMAIN launchedProcess : ~KnownExited(launchedProcess[k])

\* C9: when RunProcess has returned after having started the child, with a
\* handle or with an error, the child has exited.
C9_RunProcessBlocksUntilExit ==
    \A t \in TaskIds :
       (tasks[t].kind = "local" /\ Returned(t) /\ tasks[t].child # "none")
          => tasks[t].child = "exited"

\* RunProcess has returned a handle for one child and the error of another
C9_Witness ==
    /\ \E t \in TaskIds : /\ tasks[t].kind = "local"
                          /\ ReturnedHandle(t)
                          /\ tasks[t].child = "exited"
    /\ \E t \in TaskIds : /\ tasks[t].kind = "local"
                          /\ tasks[t].pc = "failed"
                          /\ tasks[t].child = "exited"

\* C10: once the remote shell has started the job and echoed its pid,
\* RunRemoteProcess can return whatever the state of the job: its return
\* never waits for the job to exit.
C10_RemoteReturnsWithoutWaiting ==
    \A t \in TaskIds :
       (~exited /\ tasks[t].pc = "shell") =>
          ENABLED (RemoteRunOk(t) \/ RemoteRunBadOutput(t))

\* RunRemoteProcess has returned a handle and the remote job still runs
C10_Witness ==
    \E t \in TaskIds : /\ tasks[t].kind = "remote"
                       /\ ReturnedHandle(t)
                       /\ tasks[t].started.Pid = tasks[t].pid
                       /\ tasks[t].child = "running"

(***************************************************************************)
(* Single calls of the operations of package process                       *)
(* (src/process/process.go), followed statement by statement in `call`.    *)
(* The supervisor is not running in these specifications.                  *)
(***************************************************************************)
supervisorVars ==
    << configuration, mainPc, si, ri, tasks, waiting, launchedProcess,
       watchers, notify, sigs, handlerPc, sweep, exited, exitStatus,
       exitCause, killAllRan, snapshot, dispatched, removed, killErr >>

\* no supervisor: empty configuration, no goroutine, empty table
NoSupervisor ==
    /\ configuration = <<>>
    /\ mainPc = "none"
    /\ si = 1
    /\ ri = 0
    /\ tasks = <<>>
    /\ waiting = 0
    /\ launchedProcess = EmptyTable
    /\ watchers = EmptyTable
    /\ notify = FALSE
    /\ sigs = 0
    /\ handlerPc = "none"
    /\ sweep = {}
    /\ exited = FALSE
    /\ exitStatus = 0
    /\ exitCause = ""
    /\ killAllRan = FALSE
    /\ snapshot = EmptyTable
    /\ dispatched = {}
    /\ removed = {}
    /\ killErr = FALSE

\* the private-key files of the tests: a valid key, a corrupted one; any
\* other path does not exist
KeyFile(file) ==
    IF file = "vms/compromised" THEN "valid"
    ELSE IF file = "vms/corrupted" THEN "corrupted"
    ELSE "missing"

KeyPaths == {"", "vms/compromised", "vms/corrupted", "i-do-not-exist.dne"}

\* the targets a call is made with: every combination of password and key
\* path, under a name that is or is not the local sentinel
CallServers ==
    { Target(Auth(pw, key), "localhost", n, 10000, "root") :
        pw \in {"", "password"}, key \in KeyPaths, n \in {"localhost", "local"} }

\* the most arguments of a process specification
MaxArguments == 2

\* single arguments: plain ones, one with a space in it, one that a shell
\* would expand
ArgumentValues == {"-l", "-a", "a b", "$(id)"}

RECURSIVE ArgumentLists(_)
\* the argument sequences of at most n values
ArgumentLists(n) ==
    IF n = 0 THEN { <<>> }
    ELSE ArgumentLists(n - 1) \cup
         { Append(a, v) : a \in { b \in ArgumentLists(n - 1) : Len(b) = n - 1 },
                          v \in ArgumentValues }

\* the process specifications a launcher is called on: the two templates
\* with their own arguments and with every bounded argument sequence
CallProcesses ==
    { Process(n, a, "test-center-1", Template(n).Executable, Template(n).Logs, 1) :
        n \in ProcessNames,
        a \in ArgumentLists(MaxArguments) \cup { Template(m).Arguments : m \in ProcessNames } }

\* publicKeyFile: nil when the file cannot be read, nil when the key does
\* not parse, else the public-key method
publicKeyFile(file) ==
    IF KeyFile(file) = "missing" THEN "nil"
    ELSE IF KeyFile(file) = "corrupted" THEN "nil"
    ELSE "publickey"

\* the if / else-if / else of createSSHSession taking a password whenever
\* one is set
ResolveAuth_PasswordFirst(server) ==
    IF server.Auth.Password # ""
    THEN [err |-> "", method |-> "password"]
    ELSE IF server.Auth.Password = "" /\ server.Auth.PrivateKey # ""
    THEN [err |-> "", method |-> publicKeyFile(server.Auth.PrivateKey)]
    ELSE [err |-> "Incomplete credentials", method |-> "none"]

\* the same chain refusing a key that publicKeyFile could not load
ResolveAuth_NilRejected(server) ==
    IF server.Auth.PrivateKey = "" /\ server.Auth.Password # ""
    THEN [err |-> "", method |-> "password"]
    ELSE IF /\ server.Auth.Password = "" /\ server.Auth.PrivateKey # ""
            /\ publicKeyFile(server.Auth.PrivateKey) # "nil"
    THEN [err |-> "", method |-> publicKeyFile(server.Auth.PrivateKey)]
    ELSE [err |-> "Incomplete credentials", method |-> "none"]

\* the if / else-if / else of createSSHSession that fills
\* sshConfig.Auth (process.go:239-250)
ResolveAuth(server) ==
    IF server.Auth.PrivateKey = "" /\ server.Auth.Password # ""
    THEN [err |-> "", method |-> "password"]
    ELSE IF server.Auth.Password = "" /\ server.Auth.PrivateKey # ""
    THEN [err |-> "", method |-> publicKeyFile(server.Auth.PrivateKey)]
    ELSE [err |-> "Incomplete credentials", method |-> "none"]

\* the error createSSHSession returns for each of its failures: the
\* credentials, ssh.Dial, connection.NewSession
SessionError(cause) ==
    IF cause = "credentials" THEN "Incomplete credentials"
    ELSE "Impossible to establish the connection"

\* the part of a call record that createSSHSession works on
SessionFields ==
    [ auth |-> "none", sessions |-> 0, dials |-> 0, session |-> "none",
      sessionErr |-> "", cause |-> "" ]

\* createSSHSession is entered: the credentials are resolved; incomplete
\* credentials return the error before ssh.Dial
SessionCredentials ==
    /\ call.op \in {"RunRemoteProcess", "Signal"}
    /\ call.pc = "createSSHSession"
    /\ LET r == ResolveAuth(call.server)
       IN  call' = IF r.err # ""
                   THEN [call EXCEPT !.sessions = @ + 1, !.pc = "sessionReturned",
                                     !.sessionErr = SessionError("credentials"),
                                     !.cause = "credentials"]
                   ELSE [call EXCEPT !.sessions = @ + 1, !.pc = "dial",
                                     !.auth = r.method]
    /\ UNCHANGED supervisorVars

\* ssh.Dial fails: the host is unreachable or the handshake is refused
SessionDialFail ==
    /\ call.op \in {"RunRemoteProcess", "Signal"}
    /\ call.pc = "dial"
    /\ call' = [call EXCEPT !.dials = @ + 1, !.pc = "sessionReturned",
                   !.sessionErr = SessionError("dial"), !.cause = "dial"]
    /\ UNCHANGED supervisorVars

\* ssh.Dial returns a connection
SessionDial ==
    /\ call.op \in {"RunRemoteProcess", "Signal"}
    /\ call.pc = "dial"
    /\ call' = [call EXCEPT !.dials = @ + 1, !.pc = "newSession"]
    /\ UNCHANGED supervisorVars

\* connection.NewSession fails: the host refuses a command session
SessionNewFail ==
    /\ call.op \in {"RunRemoteProcess", "Signal"}
    /\ call.pc = "newSession"
    /\ call' = [call EXCEPT !.pc = "sessionReturned",
                   !.sessionErr = SessionError("session"), !.cause = "session"]
    /\ UNCHANGED supervisorVars

\* connection.NewSession succeeds: createSSHSession returns (session, nil)
SessionNew ==
    /\ call.op \in {"RunRemoteProcess", "Signal"}
    /\ call.pc = "newSession"
    /\ call' = [call EXCEPT !.pc = "sessionReturned", !.session = "open"]
    /\ UNCHANGED supervisorVars

(***************************************************************************)
(* One call of RunRemoteProcess (src/process/process.go:126-160).          *)
(***************************************************************************)
\* the nil *StartedProcess that RunRemoteProcess returns with an error
NilStartedProcess == [nil |-> TRUE]

\* process.RunRemoteProcess(server) is called
RemoteCall(processus, server) ==
    [ op |-> "RunRemoteProcess", processus |-> processus, server |-> server,
      pc |-> "createSSHSession", command |-> <<>>, ran |-> FALSE,
      child |-> "none", output |-> <<>>, started |-> NilStartedProcess, err |-> "" ]
    @@ SessionFields

InitRemote ==
    /\ NoSupervisor
    /\ call \in { RemoteCall(p, s) : p \in CallProcesses, s \in CallServers }

\* the error RunRemoteProcess returns when createSSHSession returned err:
\* `errors.New("Failed to obtain an SSH session")`, err is dropped
RemoteSessionError(err) == "Failed to obtain an SSH session"

\* `if err != nil { return nil, errors.New("Failed to obtain an SSH session") }`
RemoteCallSessionFail ==
    /\ call.op = "RunRemoteProcess"
    /\ call.pc = "sessionReturned"
    /\ call.sessionErr # ""
    /\ call' = [call EXCEPT !.pc = "returned",
                            !.err = RemoteSessionError(call.sessionErr)]
    /\ UNCHANGED supervisorVars

\* the session is there: the command string is built and session.Run is
\* called with it
RemoteCallCommand ==
    /\ call.op = "RunRemoteProcess"
    /\ call.pc = "sessionReturned"
    /\ call.sessionErr = ""
    /\ call' = [call EXCEPT !.pc = "run",
                   !.command = createCommand(call.processus.Executable,
                                             call.processus.Arguments,
                                             call.processus.Logs)]
    /\ UNCHANGED supervisorVars

\* session.Run(command) returns an error
RemoteCallRunFail ==
    /\ call.op = "RunRemoteProcess"
    /\ call.pc = "run"
    /\ call' = [call EXCEPT !.pc = "returned", !.err = "Command : failed",
                            !.cause = "run"]
    /\ UNCHANGED supervisorVars

\* the remote shell starts the job and writes on its standard output: the
\* pid, the pid behind an option echo did not take, or nothing
RemoteCallShell ==
    /\ call.op = "RunRemoteProcess"
    /\ call.pc = "run"
    /\ \E p \in Pids : \E out \in { <<p>>, <<"-n", p>>, <<>> } :
          call' = [call EXCEPT !.pc = "shell", !.child = "running",
                               !.output = out]
    /\ UNCHANGED supervisorVars

\* session.Run(command) returns nil; strconv.Atoi decides between
\* (nil, "Unexpected output") and (&StartedProcess{...}, nil)
RemoteCallReturn ==
    /\ call.op = "RunRemoteProcess"
    /\ call.pc = "shell"
    /\ SessionRunDone(call)
    /\ call' = IF AtoiOk(call.output)
               THEN [call EXCEPT !.pc = "returned", !.ran = TRUE,
                                 !.started = RemoteHandle(call)]
               ELSE [call EXCEPT !.pc = "returned", !.ran = TRUE,
                                 !.err = "Unexpected output",
                                 !.cause = "output"]
    /\ UNCHANGED supervisorVars

NextRemote ==
    \/ SessionCredentials
    \/ SessionDialFail
    \/ SessionDial
    \/ SessionNewFail
    \/ SessionNew
    \/ RemoteCallSessionFail
    \/ RemoteCallCommand
    \/ RemoteCallRunFail
    \/ RemoteCallShell
    \/ RemoteCallReturn

SpecRemote == InitRemote /\ [][NextRemote]_vars

\* the call of RunRemoteProcess has returned
RemoteReturned == call.op = "RunRemoteProcess" /\ call.pc = "returned"

\* C11: RunRemoteProcess returns a handle exactly when the session was
\* obtained, session.Run returned nil and the captured output is one
\* decimal integer; in every other case it returns an error and nil. The
\* handle carries that integer as Pid, the given Target as Server, and the
\* Executable, Logs and Name of the process specification.
C11_RemoteHandleIff ==
    RemoteReturned =>
        /\ (call.started # NilStartedProcess) <=>
              /\ call.session = "open"
              /\ call.ran
              /\ Len(call.output) = 1 /\ call.output[1] \in Nat
        /\ (call.started = NilStartedProcess) <=> (call.err # "")
        /\ call.started # NilStartedProcess =>
              /\ call.started.Pid = call.output[1]
              /\ call.started.Server = call.server
              /\ call.started.Logs = call.processus.Logs
              /\ call.started.Name = call.processus.Name
              /\ call.started.Executable = call.processus.Executable

\* a remote launch has returned a handle for a target that is not the
\* local sentinel
C11_Witness ==
    /\ RemoteReturned
    /\ call.started # NilStartedProcess
    /\ call.server.Name # "local"
    /\ call.started.Pid = MaxPid

(***************************************************************************)
(* One call of RunProcess (src/process/process.go:56-119): the child, its  *)
(* two pipes, the two forwarders and the caller.                           *)
(***************************************************************************)
\* the most lines the child writes on one stream
MaxLines == 2

Streams == {"stdout", "stderr"}

\* the first n lines a child writes on a stream
Lines(stream, n) == [ i \in 1..n |-> << stream, i >> ]

\* RunProcess(executable, stdoutLogfile, stderrLogfile, name, arguments...)
\* is called; the child, once started, will write up to nout lines on its
\* standard output and nerr lines on its standard error
LocalCall(executable, stdoutLogfile, stderrLogfile, name, arguments, nout, nerr) ==
    [ op |-> "RunProcess",
      processus |-> Process(name, arguments, "local", executable,
                            Logs(stdoutLogfile, stderrLogfile), 1),
      pc |-> "start", pid |-> 0, child |-> "none", code |-> 0,
      script |-> [ st \in Streams |->
                     Lines(st, IF st = "stdout" THEN nout ELSE nerr) ],
      written |-> [ st \in Streams |-> 0 ],
      pipe |-> [ st \in Streams |-> <<>> ],
      pipeClosed |-> FALSE,
      forwarder |-> [ st \in Streams |-> "none" ],
      log |-> [ st \in Streams |-> <<>> ],
      started |-> EmptyStartedProcess, err |-> "" ]

InitLocal ==
    /\ NoSupervisor
    /\ call \in { LocalCall(Template(n).Executable, Template(n).Logs.Stdout,
                            Template(n).Logs.Stderr, n, Template(n).Arguments,
                            nout, nerr) :
                    n \in ProcessNames, nout \in 0..MaxLines, nerr \in 0..MaxLines }

\* StderrPipe, StdoutPipe or command.Start fails: (empty, error), no child
\* and no forwarder
LocalCallStartFail ==
    /\ call.op = "RunProcess"
    /\ call.pc = "start"
    /\ \E m \in { "CreateProcess() impossible to pipe stderr",
                  "CreateProcess() impossible to pipe stdout",
                  "CreateProcess() impossible to create the process" } :
          call' = [call EXCEPT !.pc = "returned", !.err = m]
    /\ UNCHANGED supervisorVars

\* command.Start succeeds; the two forwarders are started and the caller
\* enters command.Wait()
LocalCallStart ==
    /\ call.op = "RunProcess"
    /\ call.pc = "start"
    /\ \E p \in Pids :
          call' = [call EXCEPT !.pc = "wait", !.pid = p, !.child = "running",
                      !.forwarder = [ st \in Streams |-> "running" ]]
    /\ UNCHANGED supervisorVars

\* the child writes its next line into the pipe of a stream
ChildWrite(st) ==
    /\ call.op = "RunProcess"
    /\ call.child = "running"
    /\ call.written[st] < Len(call.script[st])
    /\ call' = [call EXCEPT !.written[st] = @ + 1,
                   !.pipe[st] = Append(@, call.script[st][call.written[st] + 1])]
    /\ UNCHANGED supervisorVars

\* the child exits, with status 0 or not; the write ends of its pipes close
ChildEnd ==
    /\ call.op = "RunProcess"
    /\ call.child = "running"
    /\ \E c \in {0, 1} : call' = [call EXCEPT !.child = "exited", !.code = c]
    /\ UNCHANGED supervisorVars

\* a scanner yielding the line written last
ScanLine_Last(pipe) == pipe[Len(pipe)]

\* scanner.Scan(); scanner.Text(): the oldest unread line of the pipe
ScanLine(pipe) == Head(pipe)

\* scanner.Scan() yields the next line of the pipe and the forwarder hands
\* it to the logger of its stream
ForwardLine(st) ==
    /\ call.op = "RunProcess"
    /\ call.forwarder[st] = "running"
    /\ ~call.pipeClosed
    /\ call.pipe[st] # <<>>
    /\ call' = [call EXCEPT !.log[st] = Append(@, ScanLine(call.pipe[st])),
                            !.pipe[st] = Tail(@)]
    /\ UNCHANGED supervisorVars

\* scanner.Scan() returns false: the pipe is drained and its write end is
\* closed, or command.Wait() has closed the read end; waiting.Done()
ForwarderEnd(st) ==
    /\ call.op = "RunProcess"
    /\ call.forwarder[st] = "running"
    /\ \/ call.pipe[st] = <<>> /\ call.child = "exited"
       \/ call.pipeClosed
    /\ call' = [call EXCEPT !.forwarder[st] = "done"]
    /\ UNCHANGED supervisorVars

\* command.Wait() returns an error: it has closed the read ends of the
\* pipes, and RunProcess returns (empty, err) at once
LocalCallWaitError ==
    /\ call.op = "RunProcess"
    /\ call.pc = "wait"
    /\ CommandWaitDone(call)
    /\ CommandWaitError(call)
    /\ call' = [call EXCEPT !.pc = "returned", !.pipeClosed = TRUE,
                            !.err = "exit status 1"]
    /\ UNCHANGED supervisorVars

\* command.Wait() returns nil: it has closed the read ends of the pipes,
\* and the caller enters waiting.Wait()
LocalCallWaitOk ==
    /\ call.op = "RunProcess"
    /\ call.pc = "wait"
    /\ CommandWaitDone(call)
    /\ ~CommandWaitError(call)
    /\ call' = [call EXCEPT !.pc = "join", !.pipeClosed = TRUE]
    /\ UNCHANGED supervisorVars

\* waiting.Wait() returns when both forwarders are done; the filled handle
\* is returned
LocalCallJoin ==
    /\ call.op = "RunProcess"
    /\ call.pc = "join"
    /\ \A st \in Streams : call.forwarder[st] = "done"
    /\ call' = [call EXCEPT !.pc = "returned", !.started = LocalHandle(call)]
    /\ UNCHANGED supervisorVars

NextLocal ==
    \/ LocalCallStartFail
    \/ LocalCallStart
    \/ \E st \in Streams : ChildWrite(st)
    \/ ChildEnd
    \/ \E st \in Streams : ForwardLine(st)
    \/ \E st \in Streams : ForwarderEnd(st)
    \/ LocalCallWaitError
    \/ LocalCallWaitOk
    \/ LocalCallJoin

SpecLocal == InitLocal /\ [][NextLocal]_vars

\* the call of RunProcess has returned after command.Start succeeded
LocalReturnedAfterStart ==
    call.op = "RunProcess" /\ call.pc = "returned" /\ call.child # "none"

\* the lines the child has written on a stream
WrittenLines(st) == SubSeq(call.script[st], 1, call.written[st])

\* C12: whenever RunProcess returns after the child was started, with the
\* handle or with the error of command.Wait(), both forwarders have
\* finished and each log consumer has received every line the child wrote
\* on its stream.
C12_ForwardersDrained ==
    LocalReturnedAfterStart =>
        \A st \in Streams : /\ call.forwarder[st] = "done"
                            /\ call.log[st] = WrittenLines(st)

(***************************************************************************)
(* One call of Signal (src/process/process.go:167-188).                    *)
(***************************************************************************)
\* the handles Signal is called on: local ones and remote ones, among them
\* remote targets that carry the name of the local sentinel
SignalHandles ==
    { StartedProcess("/usr/bin/tail", s, p, Logs("out.log", "err.log"), "tail") :
        s \in CallServers \cup {LocalTarget}, p \in Pids }

\* process.Signal(signal) is called
SignalCall(process, signal) ==
    [ op |-> "Signal", process |-> process, server |-> process.Server,
      signal |-> signal, pc |-> "start", command |-> <<>>, ran |-> FALSE,
      startErr |-> FALSE, utility |-> "none", err |-> "" ]
    @@ SessionFields

InitSignal ==
    /\ NoSupervisor
    /\ call \in { SignalCall(h, s) : h \in SignalHandles, s \in TrappedSignals }

\* the branch of Signal decided by the Hostname of the Server
SignalIsRemote_ByHostname(process) == process.Server.Hostname # "local"

\* `if process.Server.Name != "local"`
SignalIsRemote(process) == process.Server.Name # "local"

\* the remote branch: the kill command is built and createSSHSession is
\* called
SignalRemote ==
    /\ call.op = "Signal"
    /\ call.pc = "start"
    /\ SignalIsRemote(call.process)
    /\ call' = [call EXCEPT !.pc = "createSSHSession",
                   !.command = << "strace kill -s ", call.signal, " ",
                                  call.process.Pid, " &> strace.log" >>]
    /\ UNCHANGED supervisorVars

\* `if err != nil { return errors.New("Failed to create SSH Session (send signal)") }`
SignalSessionFail ==
    /\ call.op = "Signal"
    /\ call.pc = "sessionReturned"
    /\ call.sessionErr # ""
    /\ call' = [call EXCEPT !.pc = "returned",
                   !.err = "Failed to create SSH Session (send signal)"]
    /\ UNCHANGED supervisorVars

\* session.Run(command) returns an error, which Signal returns as it is
SignalRunFail ==
    /\ call.op = "Signal"
    /\ call.pc = "sessionReturned"
    /\ call.sessionErr = ""
    /\ call' = [call EXCEPT !.pc = "returned", !.cause = "run",
                            !.err = "Process exited with status 1"]
    /\ UNCHANGED supervisorVars

\* session.Run(command) returns nil and so does Signal
SignalRunOk ==
    /\ call.op = "Signal"
    /\ call.pc = "sessionReturned"
    /\ call.sessionErr = ""
    /\ call' = [call EXCEPT !.pc = "returned", !.ran = TRUE]
    /\ UNCHANGED supervisorVars

\* the local branch reporting the result of the utility as well
LocalSignalError_Waited(startErr, utility) ==
    IF startErr \/ utility = "exit1" THEN "Failed to send signal" ELSE ""

\* the local branch: `if err := command.Start(); err != nil { return
\* errors.New("Failed to send signal") }`, else nil
LocalSignalError(startErr, utility) ==
    IF startErr THEN "Failed to send signal" ELSE ""

\* the local branch: command.Start() of /bin/kill fails
SignalLocalStartFail ==
    /\ call.op = "Signal"
    /\ call.pc = "start"
    /\ ~SignalIsRemote(call.process)
    /\ call' = [call EXCEPT !.pc = "returned", !.startErr = TRUE,
                            !.err = LocalSignalError(TRUE, call.utility)]
    /\ UNCHANGED supervisorVars

\* the local branch: command.Start() starts /bin/kill
SignalLocalStart ==
    /\ call.op = "Signal"
    /\ call.pc = "start"
    /\ ~SignalIsRemote(call.process)
    /\ call' = [call EXCEPT !.pc = "started", !.utility = "running"]
    /\ UNCHANGED supervisorVars

\* /bin/kill, a process of its own, ends with status 0 or not
UtilityEnd ==
    /\ call.op = "Signal"
    /\ call.utility = "running"
    /\ \E u \in {"exit0", "exit1"} : call' = [call EXCEPT !.utility = u]
    /\ UNCHANGED supervisorVars

\* the local branch returns: there is no command.Wait()
SignalLocalReturn ==
    /\ call.op = "Signal"
    /\ call.pc = "started"
    /\ call' = [call EXCEPT !.pc = "returned",
                   !.err = LocalSignalError(call.startErr, call.utility)]
    /\ UNCHANGED supervisorVars

NextSignal ==
    \/ SignalRemote
    \/ SessionCredentials
    \/ SessionDialFail
    \/ SessionDial
    \/ SessionNewFail
    \/ SessionNew
    \/ SignalSessionFail
    \/ SignalRunFail
    \/ SignalRunOk
    \/ SignalLocalStartFail
    \/ SignalLocalStart
    \/ UtilityEnd
    \/ SignalLocalReturn

SpecSignal == InitSignal /\ [][NextSignal]_vars

\* the call of Signal has returned
SignalReturned == call.op = "Signal" /\ call.pc = "returned"

\* C13: a call of Signal on a handle whose Server name is "local" never
\* calls createSSHSession and never dials; a call on a handle of any other
\* Server name calls createSSHSession exactly once before it returns, and
\* never a second time, whether the acquisition succeeded or failed.
C13_SignalSessions ==
    call.op = "Signal" =>
        /\ call.process.Server.Name = "local" =>
              call.sessions = 0 /\ call.dials = 0
        /\ call.sessions <= 1 /\ call.dials <= 1
        /\ (SignalReturned /\ call.process.Server.Name # "local") =>
              call.sessions = 1

\* a Signal on a remote handle has returned after its one acquisition
\* failed at the dial
C13_Witness ==
    /\ SignalReturned
    /\ call.process.Server.Name # "local"
    /\ call.cause = "dial"
    /\ call.sessions = 1

\* C14: Signal returns an error exactly when, on a remote handle, the
\* session acquisition failed or session.Run of the kill command returned
\* an error, and, on a local handle, the kill utility could not be started;
\* in every other case it returns nil. On a local handle it can return as
\* soon as the utility is started, and what the utility then does has no
\* part in the result.
C14_SignalErrors ==
    call.op = "Signal" =>
        /\ SignalReturned =>
              ((call.err # "") <=>
                  IF call.process.Server.Name # "local"
                  THEN call.cause \in {"credentials", "dial", "session", "run"}
                  ELSE call.startErr)
        /\ (call.process.Server.Name = "local" /\ call.utility = "running"
               /\ call.pc # "returned") => ENABLED SignalLocalReturn

\* a Signal on a local handle has returned nil although the utility it
\* started ended with a failure
C14_Witness ==
    /\ SignalReturned
    /\ call.process.Server.Name = "local"
    /\ call.err = ""
    /\ call.utility = "exit1"

(***************************************************************************)
(* One call of Watch (src/process/process.go:192-216) and the loop it      *)
(* starts.                                                                 *)
(***************************************************************************)
\* the most times the ticker fires
MaxTicks == 2

\* the frequencies Watch is called with
WatchFrequencies == { 0 - 1, 0, 1, WatcherFrequency }

WatchHandles ==
    { StartedProcess("/usr/bin/tail", s, p, Logs("out.log", "err.log"), "tail") :
        s \in { LocalTarget, ConfigTargets[1] }, p \in Pids }

\* process.Watch(frequency, onTick, onCrash) is called: the receiver is a
\* copy of the caller's handle
WatchCall(handle, frequency) ==
    [ op |-> "Watch", handle |-> handle, process |-> handle,
      frequency |-> frequency, pc |-> "start", err |-> "",
      loop |-> "none", fired |-> 0, pending |-> 0, received |-> 0,
      onTicks |-> 0, failures |-> 0, onCrashes |-> 0,
      tickArg |-> NilStartedProcess, crashArg |-> NilStartedProcess,
      crashErr |-> "", tickerStopped |-> FALSE, written |-> 0 ]

\* the table the watched handle was taken from by watch(): the handles of
\* the instances of one process on one server
WatchTable(handle) ==
    [ k \in Pids |-> [handle EXCEPT !.Pid = k] ]

\* of the supervisor only the table and the handles of the watch loops are
\* there; the call is the Watch of one entry of the table
InitWatch ==
    /\ configuration = <<>>
    /\ mainPc = "none"
    /\ si = 1
    /\ ri = 0
    /\ tasks = <<>>
    /\ waiting = 0
    /\ notify = FALSE
    /\ sigs = 0
    /\ handlerPc = "none"
    /\ sweep = {}
    /\ exited = FALSE
    /\ exitStatus = 0
    /\ exitCause = ""
    /\ killAllRan = FALSE
    /\ snapshot = EmptyTable
    /\ dispatched = {}
    /\ removed = {}
    /\ killErr = FALSE
    /\ call \in { WatchCall(h, f) : h \in WatchHandles, f \in WatchFrequencies }
    /\ launchedProcess = WatchTable(call.handle)
    /\ watchers = WatchTable(call.handle)

\* `if frequency <= 0 { return errors.New("frequency must be greater than 0") }`
WatchReject ==
    /\ call.op = "Watch"
    /\ call.pc = "start"
    /\ ~WatchAccepts(call.frequency)
    /\ call' = [call EXCEPT !.pc = "returned",
                            !.err = "frequency must be greater than 0"]
    /\ UNCHANGED supervisorVars

\* the ticker and the quit channel are made, the loop goroutine is started
\* and Watch returns nil
WatchStart ==
    /\ call.op = "Watch"
    /\ call.pc = "start"
    /\ WatchAccepts(call.frequency)
    /\ call' = [call EXCEPT !.pc = "returned", !.loop = "select"]
    /\ UNCHANGED supervisorVars

\* the ticker fires: ticker.C holds one tick, a tick that finds it full is
\* dropped
TickerFire ==
    /\ call.op = "Watch"
    /\ call.loop # "none"
    /\ ~call.tickerStopped
    /\ call.fired < MaxTicks
    /\ call' = [call EXCEPT !.fired = @ + 1, !.pending = 1]
    /\ UNCHANGED supervisorVars

\* a quit channel that is signalled once onCrash has run
QuitReady_AfterCrash(loop) == loop.onCrashes > 0

\* `case <- quit:` can be taken: quit is a local channel of Watch that no
\* statement sends on, closes or hands out
QuitReady(loop) == FALSE

\* the select of the loop: `case <- quit:` stops the ticker and returns;
\* `case <- ticker.C:` takes the tick and calls onTick(process)
WatchRecv ==
    /\ call.op = "Watch"
    /\ call.loop = "select"
    /\ IF QuitReady(call)
       THEN call' = [call EXCEPT !.loop = "stopped", !.tickerStopped = TRUE]
       ELSE /\ call.pending = 1
            /\ call' = [call EXCEPT !.pending = 0, !.received = @ + 1,
                                    !.loop = "onTick", !.onTicks = @ + 1,
                                    !.tickArg = call.process]
    /\ UNCHANGED supervisorVars

\* the loop calling onCrash after an onTick that returned no error
Crashed_Inverted(err) == err = ""

\* `if err != nil`
Crashed(err) == err # ""

\* onTick returns; with an error the loop calls onCrash(&process), without
\* one it goes back to the select
OnTickReturn ==
    /\ call.op = "Watch"
    /\ call.loop = "onTick"
    /\ \E err \in {"", "probe failed"} :
          call' = IF Crashed(err)
                  THEN [call EXCEPT !.loop = "onCrash", !.onCrashes = @ + 1,
                           !.crashArg = call.process,
                           !.failures = @ + (IF err # "" THEN 1 ELSE 0)]
                  ELSE [call EXCEPT !.loop = "select",
                           !.failures = @ + (IF err # "" THEN 1 ELSE 0)]
    /\ UNCHANGED supervisorVars

\* a loop that ends when onCrash returns an error
AfterCrash_StopsOnError(err) == IF err # "" THEN "stopped" ELSE "select"

\* `onCrash(&process)` is a statement: its result is dropped and the loop
\* goes back to the select
AfterCrash(err) == "select"

\* a Watch whose loop hands out a pointer to the entry of the table
CrashPointer_TableEntry(loop) == "table"

\* what `&process` of `onCrash(&process)` points at: process is the value
\* receiver of Watch, a variable of that call which the loop closure
\* captured; StartedProcess has only string, int and struct fields, so the
\* copy shares nothing with the caller's handle
CrashPointer(loop) == "receiver"

\* onCrash returns nil or an error; it had a pointer to a handle and has
\* written a pid through it (call.written is the pid last written)
OnCrashReturn ==
    /\ call.op = "Watch"
    /\ call.loop = "onCrash"
    /\ \E p \in Pids : \E err \in {"", "restart failed"} :
          IF CrashPointer(call) = "receiver"
          THEN /\ call' = [call EXCEPT !.loop = AfterCrash(err),
                                       !.process.Pid = p, !.crashErr = err,
                                       !.written = p]
               /\ UNCHANGED launchedProcess
          ELSE /\ call' = [call EXCEPT !.loop = AfterCrash(err),
                                       !.crashErr = err, !.written = p]
               /\ launchedProcess' =
                     [launchedProcess EXCEPT ![call.handle.Pid].Pid = p]
    /\ UNCHANGED << configuration, mainPc, si, ri, tasks, waiting, watchers,
                    notify, sigs, handlerPc, sweep, exited, exitStatus,
                    exitCause, killAllRan, snapshot, dispatched, removed,
                    killErr >>

NextWatch ==
    \/ WatchReject
    \/ WatchStart
    \/ TickerFire
    \/ WatchRecv
    \/ OnTickReturn
    \/ OnCrashReturn

SpecWatch == InitWatch /\ [][NextWatch]_vars

\* C15: a call of Watch with an interval <= 0, on any handle, returns the
\* validation error in its first step and starts nothing: no ticker, no
\* loop, and neither onTick nor onCrash is ever invoked.
C15_WatchRejectsNonPositive ==
    (call.op = "Watch" /\ call.frequency <= 0) =>
        /\ call.pc = "start" => ENABLED WatchReject /\ ~ENABLED WatchStart
        /\ call.pc = "returned" => call.err = "frequency must be greater than 0"
        /\ call.loop = "none"
        /\ call.fired = 0
        /\ call.onTicks = 0
        /\ call.onCrashes = 0

\* Watch with the interval 0 has returned its error
C15_Witness ==
    /\ call.op = "Watch"
    /\ call.frequency = 0
    /\ call.pc = "returned"
    /\ call.err # ""

\* C16: in a watch started with a positive interval every tick the loop
\* takes from the ticker invokes onTick with the loop's handle; onCrash is
\* invoked, with that same handle, exactly for the ticks whose onTick
\* returned an error, never after an onTick that returned none, and before
\* the loop takes the next tick.
C16_TickAndCrash ==
    (call.op = "Watch" /\ call.frequency > 0 /\ call.pc = "returned") =>
        /\ call.err = ""
        /\ call.received <= call.fired
        /\ call.onTicks = call.received
        /\ call.loop = "select" => call.onCrashes = call.failures
        /\ call.loop = "onTick" =>
              call.onCrashes = call.failures /\ call.tickArg = call.process
        /\ call.loop = "onCrash" =>
              /\ call.onCrashes = call.failures
              /\ call.crashArg = call.process
              /\ call.crashArg = call.tickArg
              /\ ~ENABLED WatchRecv

\* two ticks have been handled: onCrash ran for the one whose onTick
\* failed and not for the other
C16_Witness ==
    /\ call.op = "Watch"
    /\ call.loop = "select"
    /\ call.onTicks = 2
    /\ call.failures = 1
    /\ call.onCrashes = 1

\* exactly one of the password and the private-key path of a Target is set
ExactlyOneCredential(server) ==
    (server.Auth.Password = "") # (server.Auth.PrivateKey = "")

\* C17: session creation for a Target whose password and private key are
\* both empty, or both set, fails with "Incomplete credentials", and
\* ssh.Dial is never called for it.
C17_IncompleteCredentialsNoDial ==
    (call.op = "RunRemoteProcess" /\ ~ExactlyOneCredential(call.server)) =>
        /\ call.dials = 0
        /\ call.session = "none"
        /\ call.pc \notin {"dial", "newSession", "run", "shell"}
        /\ call.sessions >= 1 => call.sessionErr = "Incomplete credentials"

\* createSSHSession has returned for a Target with both a password and a
\* private key
C17_Witness ==
    /\ call.op = "RunRemoteProcess"
    /\ call.server.Auth.Password # "" /\ call.server.Auth.PrivateKey # ""
    /\ call.pc = "sessionReturned"
    /\ call.sessionErr = "Incomplete credentials"

\* C18: for a Target with exactly one of password and private-key path set
\* the credential resolution fills the auth list and never yields
\* "Incomplete credentials"; a key file that is missing or does not parse
\* gives nil for the method, not an error, and createSSHSession goes on to
\* ssh.Dial all the same.
C18_OneCredentialReachesDial ==
    (call.op = "RunRemoteProcess" /\ ExactlyOneCredential(call.server)) =>
        /\ call.sessionErr # "Incomplete credentials"
        /\ call.sessions >= 1 =>
              /\ call.auth = IF call.server.Auth.Password # "" THEN "password"
                             ELSE IF KeyFile(call.server.Auth.PrivateKey) = "valid"
                             THEN "publickey"
                             ELSE "nil"
              /\ \/ call.dials = 1
                 \/ call.pc = "dial" /\ ENABLED SessionDial /\ ENABLED SessionDialFail

\* the dial has been attempted with the nil method of a missing key file
C18_Witness ==
    /\ call.op = "RunRemoteProcess"
    /\ call.server.Auth.Password = ""
    /\ KeyFile(call.server.Auth.PrivateKey) = "missing"
    /\ call.auth = "nil"
    /\ call.dials = 1

\* the failures of session creation
SessionCauses == {"credentials", "dial", "session"}

\* C19: the error a remote launch returns tells a connectivity failure
\* from a credentials failure and a failed dial from a refused command
\* session: it is not the error the launch returns for another of these
\* failures; and a credentials failure is returned before any command is
\* run.
C19_ErrorsDistinguishFailures ==
    (RemoteReturned /\ call.cause \in SessionCauses) =>
        /\ call.cause = "credentials" => call.command = <<>> /\ call.dials = 0
        /\ \A c \in SessionCauses \ {call.cause} :
              call.err # RemoteSessionError(SessionError(c))

\* C20: every handle a successful call of RunProcess returns has the Server
\* name "local", the pid of the child that was started as Pid, the stdout
\* and stderr paths that were passed in as Logs and the name that was
\* passed in as Name.
C20_LocalHandleFields ==
    (call.op = "RunProcess" /\ call.pc = "returned" /\ call.err = "") =>
        /\ call.child = "exited"
        /\ call.started.Server.Name = "local"
        /\ call.started.Pid = call.pid /\ call.pid \in Pids
        /\ call.started.Logs.Stdout = call.processus.Logs.Stdout
        /\ call.started.Logs.Stderr = call.processus.Logs.Stderr
        /\ call.started.Name = call.processus.Name

\* a local launch of "ls" has returned its handle
C20_Witness ==
    /\ call.op = "RunProcess"
    /\ call.pc = "returned"
    /\ call.err = ""
    /\ call.started.Name = "ls"
    /\ call.started.Pid = MaxPid

\* C21: when a pipe cannot be attached, the executable cannot be started,
\* or the child is started and does not exit with status 0, RunProcess
\* returns an error together with the zero-valued handle; it returns a
\* filled handle only for a child that was started and has exited with
\* status 0.
C21_ErrorMeansEmptyHandle ==
    (call.op = "RunProcess" /\ call.pc = "returned") =>
        /\ (call.child = "none" \/ call.code # 0) =>
              call.err # "" /\ call.started = EmptyStartedProcess
        /\ call.err # "" => call.started = EmptyStartedProcess
        /\ call.started # EmptyStartedProcess =>
              /\ call.err = ""
              /\ call.child = "exited"
              /\ call.code = 0

\* RunProcess has returned the error of command.Wait() for a child that
\* exited with a non-zero status
C21_Witness ==
    /\ call.op = "RunProcess"
    /\ call.pc = "returned"
    /\ call.child = "exited"
    /\ call.code # 0
    /\ call.err = "exit status 1"
    /\ call.started = EmptyStartedProcess

RECURSIVE Text(_)
\* the string a sequence of pieces stands for
Text(pieces) ==
    IF pieces = <<>> THEN "" ELSE Head(pieces) \o Text(Tail(pieces))

RECURSIVE SpaceSeparated(_, _)
\* the first n arguments, each after the first preceded by one space
SpaceSeparated(arguments, n) ==
    IF n = 0 THEN ""
    ELSE IF n = 1 THEN arguments[1]
    ELSE SpaceSeparated(arguments, n - 1) \o " " \o arguments[n]

\* the reference form of the remote command line
ReferenceCommand(executable, arguments, logs) ==
    "nohup " \o executable \o " " \o SpaceSeparated(arguments, Len(arguments))
       \o " >> " \o logs.Stdout \o " 2> " \o logs.Stderr \o " & echo -n $!"

\* session.Run has been called with call.command
RemoteCommandSent ==
    /\ call.op = "RunRemoteProcess"
    /\ call.pc \in {"run", "shell"} \/ (call.pc = "returned" /\ call.command # <<>>)

\* C22: for every executable, argument sequence and Logs the string that
\* createCommand builds is `nohup <executable> <arguments joined by single
\* spaces> >> <stdout-path> 2> <stderr-path> & echo -n $!`, every value
\* taken as it is (ls, [-l, -a], {output, error} gives `nohup ls -l -a >>
\* output 2> error & echo -n $!`), and this is the string RunRemoteProcess
\* passes to session.Run.
C22_CommandString ==
    RemoteCommandSent =>
        /\ call.command = createCommand(call.processus.Executable,
                                        call.processus.Arguments,
                                        call.processus.Logs)
        /\ Text(call.command) = ReferenceCommand(call.processus.Executable,
                                                 call.processus.Arguments,
                                                 call.processus.Logs)
        /\ (/\ call.processus.Executable = "/bin/ls"
            /\ call.processus.Arguments = <<"-l", "-a">>) =>
              Text(call.command) =
                 "nohup /bin/ls -l -a >> output 2> error & echo -n $!"
        /\ (/\ call.processus.Executable = "/bin/ls"
            /\ call.processus.Arguments = <<"a b", "$(id)">>) =>
              Text(call.command) =
                 "nohup /bin/ls a b $(id) >> output 2> error & echo -n $!"

\* the command line of a process with an argument that has a space in it
\* and one a shell would expand has been sent
C22_Witness ==
    /\ RemoteCommandSent
    /\ call.pc = "shell"
    /\ call.processus.Arguments = <<"a b", "$(id)">>

\* s is a prefix of t
IsPrefix(s, t) == Len(s) <= Len(t) /\ s = SubSeq(t, 1, Len(s))

\* C23: for each stream of a local process taken by itself, the lines its
\* log consumer has received are, at every moment, a prefix of the lines
\* the child has written on that stream, in the order it wrote them;
\* nothing is said of the order across the two streams.
C23_PerStreamOrder ==
    call.op = "RunProcess" =>
        \A st \in Streams : IsPrefix(call.log[st], WrittenLines(st))

\* two lines of stdout have been delivered in order while a line written
\* on stderr has not been delivered yet
C23_Witness ==
    /\ call.op = "RunProcess"
    /\ Len(call.log["stdout"]) = 2
    /\ call.log["stdout"] = Lines("stdout", 2)
    /\ call.written["stderr"] >= 1
    /\ call.log["stderr"] = <<>>

\* the loop goroutine of the watch has been started
WatchLoopStarted == call.op = "Watch" /\ call.loop # "none"

\* C24: a watch loop started with a positive interval never ends: nothing
\* signals or closes its quit channel, so `case <- quit` is never taken,
\* the ticker is never stopped and the loop goroutine never returns.
C24_WatchLoopPermanent ==
    WatchLoopStarted =>
        /\ call.frequency > 0
        /\ call.loop \in {"select", "onTick", "onCrash"}
        /\ ~call.tickerStopped
        /\ call.loop = "select" /\ call.pending = 1 => ENABLED WatchRecv

\* the loop is back at its select after the last tick of the ticker, and
\* onCrash has run
C24_Witness ==
    /\ WatchLoopStarted
    /\ call.loop = "select"
    /\ call.received = 2
    /\ call.onCrashes >= 1

\* C25: a failing probe is not fatal: after an onTick that returned an
\* error only onCrash of that loop is called, with the loop's own handle;
\* whatever onCrash returns the loop is back at its select and takes the
\* next tick; the table, the handles of the other loops and the supervisor
\* are as they were.
C25_FailingProbeNonFatal ==
    (WatchLoopStarted /\ call.failures >= 1) =>
        /\ call.loop # "stopped"
        /\ call.loop = "onCrash" => call.crashArg = call.process
        /\ (call.loop = "select" /\ call.pending = 1) => ENABLED WatchRecv
        /\ launchedProcess = WatchTable(call.handle)
        /\ watchers = WatchTable(call.handle)
        /\ launchedProcess[call.handle.Pid] = call.handle
        /\ ~exited

\* onCrash has returned an error after writing another pid into the loop's
\* handle, and the loop has called onTick for the next tick
C25_Witness ==
    /\ WatchLoopStarted
    /\ call.crashErr # ""
    /\ call.onCrashes = 1
    /\ call.process.Pid # call.handle.Pid
    /\ call.loop = "onTick"
    /\ call.onTicks = 2

\* a local child that RunProcess is waiting for is still running
LocalChildRunning ==
    \E t \in TaskIds : /\ tasks[t].kind = "local"
                       /\ tasks[t].pc = "wait"
                       /\ tasks[t].child = "running"

\* C26: the watches are attached and the signal handler is installed only
\* after the start-up barrier, that is after every launch goroutine of the
\* configuration has been started and has ended; while a local child is
\* still running its launcher has not returned, so the barrier is not
\* passed, no watch is attached, the handler is not installed and a
\* termination signal ends the supervisor without killAll.
C26_BarrierBeforeWatchAndTrap ==
    /\ (\/ mainPc \in {"trap", "blocked"}
        \/ watchers # EmptyTable
        \/ notify
        \/ handlerPc # "none") =>
          /\ Len(tasks) = SumNumber(configuration)
          /\ \A t \in TaskIds : tasks[t].pc = "done"
    /\ LocalChildRunning =>
          /\ mainPc \in {"fanout", "wait"}
          /\ watchers = EmptyTable
          /\ ~notify
          /\ handlerPc = "none"
          /\ ~killAllRan
          /\ ~exited => \A s \in TerminationSignals : ENABLED SignalDefault(s)
          /\ exited => exitCause # "handler"

\* a termination signal has ended the supervisor while main was at the
\* barrier and a local child was running: killAll has not run
C26_Witness ==
    /\ LocalChildRunning
    /\ mainPc = "wait"
    /\ exited
    /\ exitCause = "signal_default"
    /\ ~killAllRan

\* C27: after a successful fan-out and the installation of the handler main
\* is in a waiting.Wait() whose counter was incremented and is never
\* decremented, so main never goes on and the supervisor does not exit by
\* itself; when it exits it is the handler that exits it, with status 1,
\* after killAll has run.
C27_MainBlocksForever ==
    mainPc = "blocked" =>
        /\ waiting >= 1
        /\ ~BarrierDone(waiting)
        /\ notify
        /\ \A t \in TaskIds : tasks[t].pc = "done"
        /\ exited =>
              /\ exitCause = "handler"
              /\ handlerPc = "exit"
              /\ exitStatus = ExitFailure
              /\ killAllRan

\* main is blocked and the handler has exited the supervisor after a
\* sweep that emptied a table of two handles
C27_Witness ==
    /\ mainPc = "blocked"
    /\ exited
    /\ exitCause = "handler"
    /\ exitStatus = ExitFailure
    /\ Cardinality(DOMAIN snapshot) = 2
    /\ removed = Handles(snapshot)

\* C28: killAll deletes a handle from the table only after Kill on that
\* handle has returned nil; when a Kill returns an error the handle it
\* failed on and every handle the sweep has not visited are still in the
\* table as they were, and the sweep calls Kill on no further handle.
C28_DeleteOnlyAfterKill ==
    /\ \A h \in removed : \E d \in dispatched : d.process = h /\ d.ok
    /\ \A d \in dispatched :
          ~d.ok => /\ killErr
                   /\ d.process \notin removed
                   /\ d.process \in Handles(launchedProcess)
    /\ killErr =>
          /\ \A k \in sweep : /\ k \in DOMAIN launchedProcess
                              /\ launchedProcess[k] = snapshot[k]
          /\ Cardinality({ d \in dispatched : ~d.ok }) = 1
          /\ Cardinality(dispatched) = Cardinality(removed) + 1
          /\ \A k \in DOMAIN launchedProcess : ~ENABLED KillAllStep(k)

\* the first Kill of a sweep over two handles has failed: the supervisor
\* has exited with both handles in the table
C28_Witness ==
    /\ killErr
    /\ exited
    /\ Cardinality(sweep) = 2
    /\ removed = {}
    /\ Handles(launchedProcess) = Handles(snapshot)

\* C29: after a fan-out in which every launch succeeded, and in which no
\* two insertions overlapped, the table has one entry for every launched
\* instance: its size is the sum of the replica counts of the
\* configuration, also when instances run on different targets or are
\* local processes that have already exited.
C29_OneEntryPerInstance ==
    (FanoutSucceeded /\ \A t \in TaskIds : ~tasks[t].raced) =>
        /\ Len(tasks) = SumNumber(configuration)
        /\ Cardinality(DOMAIN launchedProcess) = SumNumber(configuration)

\* C30: when the supervisor has exited because a launch failed, every
\* remote process a launcher of the supervisor has started, whether its
\* handle was already in the table or not, has had Kill called on it
\* before the exit.
C30_FatalExitKillsRemoteJobs ==
    (exited /\ exitCause = "launch_fatal") =>
        \A t \in TaskIds :
           (/\ tasks[t].kind = "remote"
            /\ tasks[t].pc \in {"shell", "writing", "done"}
            /\ tasks[t].child = "running") =>
              \E d \in dispatched :
                 /\ d.process.Pid = tasks[t].pid
                 /\ d.process.Server = tasks[t].server
                 /\ d.signal = SIGTERM

(***************************************************************************)
(* C31: a process whose target names no configured Target.                 *)
(***************************************************************************)
\* the launch goroutines whose process names a target that is neither
\* "local" nor a key of targetMap
UnknownTargetTasks ==
    { t \in TaskIds : /\ tasks[t].processus.Target # "local"
                      /\ tasks[t].processus.Target \notin TargetMapKeys }

\* C31: a process whose target name is neither "local" nor the name of a
\* configured Target is launched by the remote launcher against the
\* zero-valued Target; the only outcome of its launch is the failure
\* "Incomplete credentials" of createSSHSession: no dial, no command and
\* no remote job, no handle returned and none in the table; once the launch
\* has returned, the supervisor has exited with status 1 on the
\* launch-failure path.
C31_UnknownTargetFatal ==
    \A t \in UnknownTargetTasks :
       /\ tasks[t].kind = "remote"
       /\ tasks[t].server = ZeroTarget
       /\ createSSHSession(tasks[t].server) = {"Incomplete credentials"}
       /\ ~ENABLED RemoteSession(t)
       /\ tasks[t].pc \in {"start", "failed"}
       /\ tasks[t].command = <<>>
       /\ tasks[t].child = "none"
       /\ tasks[t].started = EmptyStartedProcess
       /\ \A k \in DOMAIN launchedProcess :
             launchedProcess[k].Server # tasks[t].server
       /\ tasks[t].pc = "failed" =>
             /\ tasks[t].err = "Failed to obtain an SSH session"
             /\ exited
             /\ exitStatus = ExitFailure
             /\ exitCause = "launch_fatal"

\* the launch of a process with an unknown target has failed, next to a
\* launch of another process that had already put its handle in the table
C31_Witness ==
    \E t \in UnknownTargetTasks :
       /\ tasks[t].pc = "failed"
       /\ tasks[t].server = ZeroTarget
       /\ exited
       /\ launchedProcess # EmptyTable

(***************************************************************************)
(* C32: the Server of a handle tells which launcher created it.            *)
(***************************************************************************)
\* the launch goroutines that got this handle from their launcher
CreatorsOf(process) ==
    { t \in TaskIds : ReturnedHandle(t) /\ tasks[t].started = process }

\* C32: every handle of the table was returned by a launcher, and its
\* Server.Name is "local" exactly if that launcher was the local one; the
\* Server of a remotely launched handle is the Target its launch was made
\* against (targetMap[processus.Target]).  Hence Kill (Signal) on a handle
\* of the table opens no SSH session exactly for the locally launched
\* handles, and for a remotely launched one opens one session, whose
\* possible failures are those of a session to the Target of the launch.
C32_ServerNameTellsLauncher ==
    \A k \in DOMAIN launchedProcess :
       LET process == launchedProcess[k]
       IN /\ CreatorsOf(process) # {}
          /\ \A t \in CreatorsOf(process) :
                /\ (process.Server.Name = "local") <=> (tasks[t].kind = "local")
                /\ tasks[t].kind = "remote" =>
                      /\ process.Server = TargetMap(tasks[t].processus.Target)
                      /\ process.Server = tasks[t].server
                /\ \A o \in Kill(process) :
                      /\ (o.sessions = 0) <=> (tasks[t].kind = "local")
                      /\ (o.sessions = 1) <=> (tasks[t].kind = "remote")
                /\ tasks[t].kind = "remote" =>
                      ( (\E o \in Kill(process) :
                            o.err = "Failed to create SSH Session (send signal)")
                        <=> (createSSHSession(tasks[t].server) \ {""} # {}) )

\* killAll has called Kill on a locally launched handle while a remotely
\* launched handle is in the table
C32_Witness ==
    /\ \E d \in dispatched :
          /\ d.process.Server.Name = "local"
          /\ \E t \in CreatorsOf(d.process) : tasks[t].kind = "local"
    /\ \E k \in DOMAIN launchedProcess :
          /\ launchedProcess[k].Server.Name # "local"
          /\ \E t \in CreatorsOf(launchedProcess[k]) : tasks[t].kind = "remote"

(***************************************************************************)
(* C33: the watch loop works on its own copy of the handle.                *)
(***************************************************************************)
\* C33: throughout a watch loop the table and the handles of the other
\* watch loops are what they were when Watch was called, whatever onCrash
\* has written through its pointer; the pointer onCrash gets is to the
\* loop's own copy, so that after onCrash has written a pid the loop's
\* copy is the original handle with that pid, and every later onTick is
\* called with this modified copy.
C33_WatchOwnCopy ==
    call.op = "Watch" =>
        /\ launchedProcess = WatchTable(call.handle)
        /\ watchers = WatchTable(call.handle)
        /\ call.loop = "onCrash" => call.crashArg = call.process
        /\ call.written = 0 => call.process = call.handle
        /\ call.written # 0 =>
              call.process = [call.handle EXCEPT !.Pid = call.written]
        /\ (call.loop = "onTick" /\ call.written # 0) =>
              call.tickArg = [call.handle EXCEPT !.Pid = call.written]

\* onCrash has written another pid through its pointer and a later onTick
\* is running with the modified copy, while the entry of the table still
\* has the original pid
C33_Witness ==
    /\ call.op = "Watch"
    /\ call.loop = "onTick"
    /\ call.written # 0
    /\ call.written # call.handle.Pid
    /\ call.tickArg.Pid = call.written
    /\ launchedProcess[call.handle.Pid] = call.handle
    /\ watchers[call.handle.Pid] = call.handle

====
